---- MODULE Spec2Model ----
(***************************************************************************)
(* Breathing-light arbitration of liblight/lights.c (Nubia Z11 lights      *)
(* HAL).  Several threads call the set_light_* entry points; each call     *)
(* takes g_lock, stores the requested state, runs                          *)
(* set_breath_light_locked and releases the lock.  Every statement of      *)
(* set_breath_light_locked that reads or writes shared data or reaches a   *)
(* sysfs node is one step of the calling thread.                           *)
(***************************************************************************)
EXTENDS Integers, Sequences, FiniteSets, TLC

(* ------------------------------ bounds --------------------------------- *)
NumThreads == 2
MaxCalls == 3
MaxIOCalls == 2
MaxFaults == 2
MaxLiveCalls == 2

Threads == 1..NumThreads

(* ----------------------- constants of lights.c ------------------------- *)
BLINK_MODE_ON == "6"
BLINK_MODE_BREATH == "3"
BLINK_MODE_OFF == "2"

CHANNEL_BUTTONS == 8
CHANNEL_RED == 16

BRIGHTNESS_BUTTONS == 3
BRIGHTNESS_RED == 8

BREATH_SOURCE_NOTIFICATION == 1
BREATH_SOURCE_BATTERY == 2
BREATH_SOURCE_BUTTONS == 4
BREATH_SOURCE_ATTENTION == 8
BREATH_SOURCE_NONE == 255

LCD_FILE == "/sys/class/leds/lcd-backlight/brightness"
BREATH_RED_LED == "/sys/class/leds/nubia_led/blink_mode"
BREATH_RED_OUTN == "/sys/class/leds/nubia_led/outn"
BREATH_RED_GRADE == "/sys/class/leds/nubia_led/grade_parameter"

Sources ==
  {BREATH_SOURCE_NOTIFICATION, BREATH_SOURCE_BATTERY,
   BREATH_SOURCE_BUTTONS, BREATH_SOURCE_ATTENTION}

(* light_state_t.color values the callers pass (ARGB): 0x00000000,         *)
(* 0x7F00FFFF (red byte 0, every other bit below the sign set) and         *)
(* 0x00010000 (red byte 1).                                                *)
Colors == {0, 2130771967, 65536}

(* Outcomes of one write_int / write_str call: 0, -errno when the node     *)
(* cannot be opened (errno taken to be ENOENT), -errno when write() fails  *)
(* (errno taken to be EIO).                                                *)
ENOENT == 2
EIO == 5
WriteResults == {0, 0 - ENOENT, 0 - EIO}

(* --------------------------- C arithmetic ------------------------------ *)
RECURSIVE BitAnd(_, _)
BitAnd(a, b) ==
  IF a = 0 \/ b = 0 THEN 0
  ELSE (a % 2) * (b % 2) + 2 * BitAnd(a \div 2, b \div 2)

BitOr(a, b) == a + b - BitAnd(a, b)

BitAndNot(a, b) == a - BitAnd(a, b)

Digit(d) == <<"0", "1", "2", "3", "4", "5", "6", "7", "8", "9">>[d + 1]

RECURSIVE FormatInt(_)
FormatInt(n) ==
  IF n < 10 THEN Digit(n) ELSE FormatInt(n \div 10) \o Digit(n % 10)

(* sprintf(buffer, "%d\n", value) and sprintf(buffer, "%s\n", value) *)
IntBuffer(value) == FormatInt(value) \o "\n"

StrBuffer(value) == value \o "\n"

(* Brightness taken from the blue byte: the shift forgotten. *)
Brightness_noShift(color) == color % 256

(* rgb_to_brightness(state) *)
rgb_to_brightness(color) ==
  LET c == color % 16777216 IN
    (((c \div 65536) % 256) + ((c \div 256) % 256) + (c % 256)) \div 3

(* int brightness = (state->color >> 16) & 0xFF; *)
Brightness(color) == (color \div 65536) % 256

(* ------------------------------- state --------------------------------- *)
VARIABLES
  g,               \* g_notification, g_battery, g_buttons, g_attention (.color)
  active_states,
  last_state,
  g_lock,          \* 0 when free, else the thread that holds it
  pc,              \* per thread: the statement it executes next
  arg,             \* per thread: event_source, and state->color once read
  brightness,      \* per thread: local of set_breath_light_locked
  blink_mode,      \* per thread: local of set_breath_light_locked
  ret,             \* per thread: value the last call returned, 0 while a
                   \*   call is in progress
  err,             \* history, per thread: first nonzero write result of the call
  pre,             \* history, per thread: shared data when the call took the lock
  cw,              \* history, per thread: buffers the call has written so far
  cid,             \* history, per thread: number of the call in lock order
  nlocks,          \* history: number of calls that have taken the lock
  prev,            \* history: the call that stored its state last
  seq,             \* history: the calls so far run one after the other,
                   \*   in the order in which they stored their state
  segs,            \* history: the numbers of the calls that wrote, one entry
                   \*   per run of consecutive writes of the same call
  warned_int,      \* already_warned of write_int
  warned_str,      \* already_warned of write_str
  alog,            \* history: the paths of the ALOGE lines of the writers
  failed,          \* history: the paths on which a write has failed
  sel,             \* history: the buffer that reached outn last
  modeOf,          \* history: per outn buffer, the buffer that reached
                   \*   blink_mode last while outn held it
  budget,          \* number of calls the callers may still make
  faults           \* number of writes that may still fail

vars ==
  <<g, active_states, last_state, g_lock, pc, arg, brightness, blink_mode,
    ret, err, pre, cw, cid, nlocks, prev, seq, segs, warned_int,
    warned_str, alog, failed, sel, modeOf, budget, faults>>

shared == <<g, active_states, last_state>>

locals == <<arg, brightness, blink_mode, ret>>

history == <<err, pre, cw, cid, nlocks, prev, seq, segs>>

sysfs == <<warned_int, warned_str, alog, failed, sel, modeOf, faults>>

NoCall == [src |-> BREATH_SOURCE_NONE, color |-> 0]

Shared0 ==
  [g |-> [s \in Sources |-> 0], active |-> 0, last |-> BREATH_SOURCE_NONE]

Pre0 ==
  [g |-> Shared0.g, active |-> 0, last |-> BREATH_SOURCE_NONE,
   prev |-> NoCall]

(* The program after its static initialisers, no call made yet. *)
Start ==
  /\ g = Shared0.g
  /\ active_states = 0
  /\ last_state = BREATH_SOURCE_NONE
  /\ g_lock = 0
  /\ pc = [t \in Threads |-> "idle"]
  /\ arg = [t \in Threads |-> NoCall]
  /\ brightness = [t \in Threads |-> 0]
  /\ blink_mode = [t \in Threads |-> ""]
  /\ ret = [t \in Threads |-> 0]
  /\ err = [t \in Threads |-> 0]
  /\ pre = [t \in Threads |-> Pre0]
  /\ cw = [t \in Threads |-> <<>>]
  /\ cid = [t \in Threads |-> 0]
  /\ nlocks = 0
  /\ prev = NoCall
  /\ seq = Shared0
  /\ segs = <<>>
  /\ warned_int = FALSE
  /\ warned_str = FALSE
  /\ alog = <<>>
  /\ failed = {}
  /\ sel = ""
  /\ modeOf =
       [c \in {IntBuffer(CHANNEL_BUTTONS), IntBuffer(CHANNEL_RED)} |-> ""]

Init == Start /\ budget = MaxCalls /\ faults = 0

(* ------------- set_breath_light_locked as one function ----------------- *)
OffWrites ==
  <<[path |-> BREATH_RED_OUTN, data |-> IntBuffer(CHANNEL_BUTTONS)],
    [path |-> BREATH_RED_LED, data |-> StrBuffer(BLINK_MODE_OFF)],
    [path |-> BREATH_RED_OUTN, data |-> IntBuffer(CHANNEL_RED)],
    [path |-> BREATH_RED_LED, data |-> StrBuffer(BLINK_MODE_OFF)]>>

RedWrites(mode) ==
  <<[path |-> BREATH_RED_OUTN, data |-> IntBuffer(CHANNEL_RED)],
    [path |-> BREATH_RED_LED, data |-> StrBuffer(mode)]>>

ButtonWrites ==
  <<[path |-> BREATH_RED_OUTN, data |-> IntBuffer(CHANNEL_BUTTONS)],
    [path |-> BREATH_RED_GRADE, data |-> IntBuffer(BRIGHTNESS_BUTTONS)],
    [path |-> BREATH_RED_LED, data |-> StrBuffer(BLINK_MODE_ON)],
    [path |-> BREATH_RED_OUTN, data |-> IntBuffer(CHANNEL_RED)],
    [path |-> BREATH_RED_GRADE, data |-> IntBuffer(BRIGHTNESS_RED)],
    [path |-> BREATH_RED_LED, data |-> StrBuffer(BLINK_MODE_ON)]>>

(* Lines 212-225 for the active set a and the blink mode chosen above. *)
PatternWrites(a, mode) ==
  IF BitAnd(a, BREATH_SOURCE_BUTTONS) = 0 THEN RedWrites(mode)
  ELSE ButtonWrites

(* Lines 188-227 for the active set a and the previous last_state. *)
Arbitrate(a, last) ==
  IF BitAnd(a, BREATH_SOURCE_NOTIFICATION) # 0
  THEN [last |-> BREATH_SOURCE_NOTIFICATION,
        writes |-> PatternWrites(a, BLINK_MODE_BREATH)]
  ELSE IF BitAnd(a, BREATH_SOURCE_BATTERY) # 0
  THEN [last |-> BREATH_SOURCE_BATTERY,
        writes |-> PatternWrites(a, BLINK_MODE_BREATH)]
  ELSE IF BitAnd(a, BREATH_SOURCE_BUTTONS) # 0
  THEN IF last = BREATH_SOURCE_BUTTONS
       THEN [last |-> last, writes |-> <<>>]
       ELSE [last |-> BREATH_SOURCE_BUTTONS, writes |-> ButtonWrites]
  ELSE IF BitAnd(a, BREATH_SOURCE_ATTENTION) # 0
  THEN [last |-> BREATH_SOURCE_ATTENTION,
        writes |-> PatternWrites(a, BLINK_MODE_BREATH)]
  ELSE [last |-> BREATH_SOURCE_NONE, writes |-> <<>>]

(* set_breath_light_locked(event_source, state) run from the shared data   *)
(* st with every statement in turn: the shared data it leaves and the      *)
(* buffers it writes.                                                      *)
set_breath_light_locked(st, event_source, color) ==
  IF Brightness(color) > 0
  THEN LET a == BitOr(st.active, event_source)
           r == Arbitrate(a, st.last)
       IN [g |-> st.g, active |-> a, last |-> r.last, writes |-> r.writes]
  ELSE LET a == BitAndNot(st.active, event_source) IN
       IF a = 0
       THEN [g |-> st.g, active |-> a, last |-> BREATH_SOURCE_NONE,
             writes |-> OffWrites]
       ELSE LET r == Arbitrate(a, st.last)
            IN [g |-> st.g, active |-> a, last |-> r.last,
                writes |-> OffWrites \o r.writes]

(* The body of set_light_<source> between lock and unlock. *)
set_light(st, src, color) ==
  set_breath_light_locked([st EXCEPT !.g[src] = color], src, color)

StateOf(r) == [g |-> r.g, active |-> r.active, last |-> r.last]

(* --------------------------- entry points ------------------------------ *)
(* A thread enters set_light_<source>(dev, state) and reaches              *)
(* pthread_mutex_lock; *state is not read before the lock is held.         *)
Invoke(t, src) ==
  /\ pc[t] = "idle"
  /\ budget > 0
  /\ budget' = budget - 1
  /\ arg' = [arg EXCEPT ![t] = [src |-> src, color |-> 0]]
  /\ ret' = [ret EXCEPT ![t] = 0]
  /\ pc' = [pc EXCEPT ![t] = "lock"]
  /\ UNCHANGED <<shared, g_lock, brightness, blink_mode, history, sysfs>>

set_light_buttons(t) == Invoke(t, BREATH_SOURCE_BUTTONS)

set_light_battery(t) == Invoke(t, BREATH_SOURCE_BATTERY)

set_light_notifications(t) == Invoke(t, BREATH_SOURCE_NOTIFICATION)

set_light_attention(t) == Invoke(t, BREATH_SOURCE_ATTENTION)

(* Lock that does not wait for the mutex to be free. *)
Lock_noMutex(t) ==
  /\ pc[t] = "lock"
  /\ g_lock' = t
  /\ pc' = [pc EXCEPT ![t] = "store"]
  /\ pre' = [pre EXCEPT ![t] =
       [g |-> g, active |-> active_states, last |-> last_state,
        prev |-> prev]]
  /\ nlocks' = nlocks + 1
  /\ cid' = [cid EXCEPT ![t] = nlocks + 1]
  /\ UNCHANGED <<shared, locals, err, cw, prev, seq, segs, sysfs, budget>>

(* pthread_mutex_lock(&g_lock) *)
Lock(t) ==
  /\ pc[t] = "lock"
  /\ g_lock = 0
  /\ g_lock' = t
  /\ pc' = [pc EXCEPT ![t] = "store"]
  /\ pre' = [pre EXCEPT ![t] =
       [g |-> g, active |-> active_states, last |-> last_state,
        prev |-> prev]]
  /\ nlocks' = nlocks + 1
  /\ cid' = [cid EXCEPT ![t] = nlocks + 1]
  /\ UNCHANGED <<shared, locals, err, cw, prev, seq, segs, sysfs, budget>>

(* g_<source> = *state;  color is what the caller's state holds now. *)
Store(t, color) ==
  /\ pc[t] = "store"
  /\ arg' = [arg EXCEPT ![t].color = color]
  /\ g' = [g EXCEPT ![arg[t].src] = color]
  /\ pc' = [pc EXCEPT ![t] = "L169"]
  /\ prev' = [src |-> arg[t].src, color |-> color]
  /\ seq' = StateOf(set_light(seq, arg[t].src, color))
  /\ UNCHANGED <<active_states, last_state, g_lock, brightness, blink_mode,
                 ret, err, pre, cw, cid, nlocks, segs, sysfs, budget>>

(* --------------------- set_breath_light_locked ------------------------- *)
(* int brightness = (state->color >> 16) & 0xFF;  state is &g_<source>.    *)
ReadBrightness(t) ==
  /\ pc[t] = "L169"
  /\ brightness' = [brightness EXCEPT ![t] = Brightness(g[arg[t].src])]
  /\ pc' = [pc EXCEPT ![t] = "L171"]
  /\ UNCHANGED <<shared, g_lock, arg, blink_mode, ret, history, sysfs,
                 budget>>

(* UpdateActive that rebuilds active_states from the updated source alone. *)
UpdateActive_assign(t) ==
  /\ pc[t] = "L171"
  /\ IF brightness[t] > 0
     THEN /\ active_states' = arg[t].src
          /\ pc' = [pc EXCEPT ![t] = "L188"]
     ELSE /\ active_states' = 0
          /\ pc' = [pc EXCEPT ![t] = "L176"]
  /\ UNCHANGED <<g, last_state, g_lock, locals, history, sysfs, budget>>

(* UpdateActive that runs the off sequence only when the bit of the source *)
(* goes from set to clear.                                                 *)
UpdateActive_offOnTransition(t) ==
  /\ pc[t] = "L171"
  /\ IF brightness[t] > 0
     THEN /\ active_states' = BitOr(active_states, arg[t].src)
          /\ pc' = [pc EXCEPT ![t] = "L188"]
     ELSE /\ active_states' = BitAndNot(active_states, arg[t].src)
          /\ pc' = [pc EXCEPT ![t] =
               IF BitAnd(active_states, arg[t].src) # 0 THEN "L176"
               ELSE "L182"]
  /\ UNCHANGED <<g, last_state, g_lock, locals, history, sysfs, budget>>

(* UpdateActive that runs the off sequence on every call. *)
UpdateActive_alwaysOff(t) ==
  /\ pc[t] = "L171"
  /\ active_states' = IF brightness[t] > 0
                      THEN BitOr(active_states, arg[t].src)
                      ELSE BitAndNot(active_states, arg[t].src)
  /\ pc' = [pc EXCEPT ![t] = "L176"]
  /\ UNCHANGED <<g, last_state, g_lock, locals, history, sysfs, budget>>

(* if (brightness > 0) active_states |= event_source;                      *)
(* else { active_states &= ~event_source; ...                              *)
UpdateActive(t) ==
  /\ pc[t] = "L171"
  /\ IF brightness[t] > 0
     THEN /\ active_states' = BitOr(active_states, arg[t].src)
          /\ pc' = [pc EXCEPT ![t] = "L188"]
     ELSE /\ active_states' = BitAndNot(active_states, arg[t].src)
          /\ pc' = [pc EXCEPT ![t] = "L176"]
  /\ UNCHANGED <<g, last_state, g_lock, locals, history, sysfs, budget>>

(* CheckEmpty that goes on to the chain with the empty set. *)
CheckEmpty_noReturn(t) ==
  /\ pc[t] = "L182"
  /\ pc' = [pc EXCEPT ![t] = "L188"]
  /\ UNCHANGED <<shared, g_lock, locals, history, sysfs, budget>>

(* CheckEmpty that returns on the empty set without resetting last_state. *)
CheckEmpty_keepLast(t) ==
  /\ pc[t] = "L182"
  /\ pc' = [pc EXCEPT ![t] = IF active_states = 0 THEN "unlock" ELSE "L188"]
  /\ UNCHANGED <<shared, g_lock, locals, history, sysfs, budget>>

(* if (active_states == 0) { last_state = BREATH_SOURCE_NONE; return 0; } *)
CheckEmpty(t) ==
  /\ pc[t] = "L182"
  /\ IF active_states = 0
     THEN /\ last_state' = BREATH_SOURCE_NONE
          /\ pc' = [pc EXCEPT ![t] = "unlock"]
     ELSE /\ last_state' = last_state
          /\ pc' = [pc EXCEPT ![t] = "L188"]
  /\ UNCHANGED <<g, active_states, g_lock, locals, history, sysfs, budget>>

(* The chain that returns without a write whenever the winner is the same  *)
(* as before.                                                              *)
Select_skipUnchanged(t) ==
  /\ pc[t] = "L188"
  /\ LET w == Arbitrate(active_states, BREATH_SOURCE_NONE).last IN
       IF w = BREATH_SOURCE_NONE \/ w = last_state
       THEN /\ last_state' = w
            /\ pc' = [pc EXCEPT ![t] = "unlock"]
            /\ UNCHANGED blink_mode
       ELSE /\ last_state' = w
            /\ pc' = [pc EXCEPT ![t] = "L212"]
            /\ blink_mode' = [blink_mode EXCEPT ![t] =
                 IF w = BREATH_SOURCE_BUTTONS THEN @ ELSE BLINK_MODE_BREATH]
  /\ UNCHANGED <<g, active_states, g_lock, arg, brightness, ret, history,
                 sysfs, budget>>

(* The chain with Battery tested before Notification. *)
Select_batteryFirst(t) ==
  /\ pc[t] = "L188"
  /\ IF BitAnd(active_states, BREATH_SOURCE_BATTERY) # 0
     THEN /\ blink_mode' = [blink_mode EXCEPT ![t] = BLINK_MODE_BREATH]
          /\ last_state' = BREATH_SOURCE_BATTERY
          /\ pc' = [pc EXCEPT ![t] = "L212"]
     ELSE IF BitAnd(active_states, BREATH_SOURCE_NOTIFICATION) # 0
     THEN /\ blink_mode' = [blink_mode EXCEPT ![t] = BLINK_MODE_BREATH]
          /\ last_state' = BREATH_SOURCE_NOTIFICATION
          /\ pc' = [pc EXCEPT ![t] = "L212"]
     ELSE IF BitAnd(active_states, BREATH_SOURCE_BUTTONS) # 0
     THEN IF last_state = BREATH_SOURCE_BUTTONS
          THEN /\ pc' = [pc EXCEPT ![t] = "unlock"]
               /\ UNCHANGED <<blink_mode, last_state>>
          ELSE /\ last_state' = BREATH_SOURCE_BUTTONS
               /\ pc' = [pc EXCEPT ![t] = "L212"]
               /\ UNCHANGED blink_mode
     ELSE IF BitAnd(active_states, BREATH_SOURCE_ATTENTION) # 0
     THEN /\ blink_mode' = [blink_mode EXCEPT ![t] = BLINK_MODE_BREATH]
          /\ last_state' = BREATH_SOURCE_ATTENTION
          /\ pc' = [pc EXCEPT ![t] = "L212"]
     ELSE /\ last_state' = BREATH_SOURCE_NONE
          /\ pc' = [pc EXCEPT ![t] = "unlock"]
          /\ UNCHANGED blink_mode
  /\ UNCHANGED <<g, active_states, g_lock, arg, brightness, ret, history,
                 sysfs, budget>>

(* The chain without the return on last_state == BREATH_SOURCE_BUTTONS. *)
Select_noSkip(t) ==
  /\ pc[t] = "L188"
  /\ IF BitAnd(active_states, BREATH_SOURCE_NOTIFICATION) # 0
     THEN /\ blink_mode' = [blink_mode EXCEPT ![t] = BLINK_MODE_BREATH]
          /\ last_state' = BREATH_SOURCE_NOTIFICATION
          /\ pc' = [pc EXCEPT ![t] = "L212"]
     ELSE IF BitAnd(active_states, BREATH_SOURCE_BATTERY) # 0
     THEN /\ blink_mode' = [blink_mode EXCEPT ![t] = BLINK_MODE_BREATH]
          /\ last_state' = BREATH_SOURCE_BATTERY
          /\ pc' = [pc EXCEPT ![t] = "L212"]
     ELSE IF BitAnd(active_states, BREATH_SOURCE_BUTTONS) # 0
     THEN /\ last_state' = BREATH_SOURCE_BUTTONS
          /\ pc' = [pc EXCEPT ![t] = "L212"]
          /\ UNCHANGED blink_mode
     ELSE IF BitAnd(active_states, BREATH_SOURCE_ATTENTION) # 0
     THEN /\ blink_mode' = [blink_mode EXCEPT ![t] = BLINK_MODE_BREATH]
          /\ last_state' = BREATH_SOURCE_ATTENTION
          /\ pc' = [pc EXCEPT ![t] = "L212"]
     ELSE /\ last_state' = BREATH_SOURCE_NONE
          /\ pc' = [pc EXCEPT ![t] = "unlock"]
          /\ UNCHANGED blink_mode
  /\ UNCHANGED <<g, active_states, g_lock, arg, brightness, ret, history,
                 sysfs, budget>>

(* The if / else-if chain of lines 188-210. *)
Select(t) ==
  /\ pc[t] = "L188"
  /\ IF BitAnd(active_states, BREATH_SOURCE_NOTIFICATION) # 0
     THEN /\ blink_mode' = [blink_mode EXCEPT ![t] = BLINK_MODE_BREATH]
          /\ last_state' = BREATH_SOURCE_NOTIFICATION
          /\ pc' = [pc EXCEPT ![t] = "L212"]
     ELSE IF BitAnd(active_states, BREATH_SOURCE_BATTERY) # 0
     THEN /\ blink_mode' = [blink_mode EXCEPT ![t] = BLINK_MODE_BREATH]
          /\ last_state' = BREATH_SOURCE_BATTERY
          /\ pc' = [pc EXCEPT ![t] = "L212"]
     ELSE IF BitAnd(active_states, BREATH_SOURCE_BUTTONS) # 0
     THEN IF last_state = BREATH_SOURCE_BUTTONS
          THEN /\ pc' = [pc EXCEPT ![t] = "unlock"]
               /\ UNCHANGED <<blink_mode, last_state>>
          ELSE /\ last_state' = BREATH_SOURCE_BUTTONS
               /\ pc' = [pc EXCEPT ![t] = "L212"]
               /\ UNCHANGED blink_mode
     ELSE IF BitAnd(active_states, BREATH_SOURCE_ATTENTION) # 0
     THEN /\ blink_mode' = [blink_mode EXCEPT ![t] = BLINK_MODE_BREATH]
          /\ last_state' = BREATH_SOURCE_ATTENTION
          /\ pc' = [pc EXCEPT ![t] = "L212"]
     ELSE /\ last_state' = BREATH_SOURCE_NONE
          /\ pc' = [pc EXCEPT ![t] = "unlock"]
          /\ UNCHANGED blink_mode
  /\ UNCHANGED <<g, active_states, g_lock, arg, brightness, ret, history,
                 sysfs, budget>>

(* if ((active_states & BREATH_SOURCE_BUTTONS) == 0) ... else ... *)
ChoosePattern(t) ==
  /\ pc[t] = "L212"
  /\ pc' = [pc EXCEPT ![t] =
       IF BitAnd(active_states, BREATH_SOURCE_BUTTONS) = 0
       THEN "L214" ELSE "L218"]
  /\ UNCHANGED <<shared, g_lock, locals, history, sysfs, budget>>

(* The write statements with the buttons grade written before the buttons  *)
(* channel is selected.                                                    *)
IntWrites_gradeFirst(t) ==
  [L159 |-> <<LCD_FILE, brightness[t], "L160">>,
   L176 |-> <<BREATH_RED_OUTN, CHANNEL_BUTTONS, "L177">>,
   L179 |-> <<BREATH_RED_OUTN, CHANNEL_RED, "L180">>,
   L214 |-> <<BREATH_RED_OUTN, CHANNEL_RED, "L215">>,
   L218 |-> <<BREATH_RED_GRADE, BRIGHTNESS_BUTTONS, "L219">>,
   L219 |-> <<BREATH_RED_OUTN, CHANNEL_BUTTONS, "L220">>,
   L222 |-> <<BREATH_RED_OUTN, CHANNEL_RED, "L223">>,
   L223 |-> <<BREATH_RED_GRADE, BRIGHTNESS_RED, "L224">>]

(* The write_int / write_str statements: path, value, and the statement    *)
(* that follows.                                                           *)
IntWrites(t) ==
  [L159 |-> <<LCD_FILE, brightness[t], "L160">>,
   L176 |-> <<BREATH_RED_OUTN, CHANNEL_BUTTONS, "L177">>,
   L179 |-> <<BREATH_RED_OUTN, CHANNEL_RED, "L180">>,
   L214 |-> <<BREATH_RED_OUTN, CHANNEL_RED, "L215">>,
   L218 |-> <<BREATH_RED_OUTN, CHANNEL_BUTTONS, "L219">>,
   L219 |-> <<BREATH_RED_GRADE, BRIGHTNESS_BUTTONS, "L220">>,
   L222 |-> <<BREATH_RED_OUTN, CHANNEL_RED, "L223">>,
   L223 |-> <<BREATH_RED_GRADE, BRIGHTNESS_RED, "L224">>]

StrWrites(t) ==
  [L177 |-> <<BREATH_RED_LED, BLINK_MODE_OFF, "L179">>,
   L180 |-> <<BREATH_RED_LED, BLINK_MODE_OFF, "L182">>,
   L215 |-> <<BREATH_RED_LED, blink_mode[t], "unlock">>,
   L220 |-> <<BREATH_RED_LED, BLINK_MODE_ON, "L222">>,
   L224 |-> <<BREATH_RED_LED, BLINK_MODE_ON, "unlock">>]

(* The call gives up at the first write that fails. *)
AfterWrite_abort(next, res) == IF res # 0 THEN "unlock" ELSE next

(* The statement reached after a write statement whose call returned res:  *)
(* the callers do not look at the result.                                  *)
AfterWrite(next, res) == next

(* One buffer reaches a sysfs node on behalf of thread t. *)
Issue(t, path, data, next, res) ==
  /\ res # 0 => faults > 0
  /\ faults' = IF res # 0 THEN faults - 1 ELSE faults
  /\ cw' = [cw EXCEPT ![t] = Append(@, [path |-> path, data |-> data])]
  /\ segs' = IF segs # <<>> /\ segs[Len(segs)] = cid[t] THEN segs
             ELSE Append(segs, cid[t])
  /\ err' = [err EXCEPT ![t] = IF @ = 0 THEN res ELSE @]
  /\ pc' = [pc EXCEPT ![t] = AfterWrite(next, res)]
  /\ failed' = IF res # 0 THEN failed \cup {path} ELSE failed
  /\ sel' = IF res = 0 /\ path = BREATH_RED_OUTN THEN data ELSE sel
  /\ modeOf' = IF res = 0 /\ path = BREATH_RED_LED /\ sel \in DOMAIN modeOf
               THEN [modeOf EXCEPT ![sel] = data] ELSE modeOf
  /\ UNCHANGED <<shared, g_lock, locals, pre, cid, nlocks, prev, seq,
                 budget>>

(* write_int(path, value) at one of the statements of IntWrites. *)
write_int(t, res) ==
  /\ pc[t] \in DOMAIN IntWrites(t)
  /\ LET w == IntWrites(t)[pc[t]] IN
       /\ Issue(t, w[1], IntBuffer(w[2]), w[3], res)
       /\ alog' = IF res = 0 - ENOENT /\ ~warned_int THEN Append(alog, w[1])
                  ELSE alog
  /\ warned_int' = (warned_int \/ res = 0 - ENOENT)
  /\ UNCHANGED warned_str

(* write_str(path, value) at one of the statements of StrWrites. *)
write_str(t, res) ==
  /\ pc[t] \in DOMAIN StrWrites(t)
  /\ LET w == StrWrites(t)[pc[t]] IN
       /\ Issue(t, w[1], StrBuffer(w[2]), w[3], res)
       /\ alog' = IF res = 0 - ENOENT /\ ~warned_str THEN Append(alog, w[1])
                  ELSE alog
  /\ warned_str' = (warned_str \/ res = 0 - ENOENT)
  /\ UNCHANGED warned_int

(* The return that leaves the mutex locked. *)
Unlock_keepLock(t) ==
  /\ pc[t] = "unlock"
  /\ g_lock' = g_lock
  /\ ret' = [ret EXCEPT ![t] = 0]
  /\ pc' = [pc EXCEPT ![t] = "idle"]
  /\ arg' = [arg EXCEPT ![t] = NoCall]
  /\ brightness' = [brightness EXCEPT ![t] = 0]
  /\ blink_mode' = [blink_mode EXCEPT ![t] = ""]
  /\ err' = [err EXCEPT ![t] = 0]
  /\ pre' = [pre EXCEPT ![t] = Pre0]
  /\ cw' = [cw EXCEPT ![t] = <<>>]
  /\ cid' = [cid EXCEPT ![t] = 0]
  /\ UNCHANGED <<shared, nlocks, prev, seq, segs, sysfs, budget>>

(* pthread_mutex_unlock(&g_lock); return 0;  The frame of the call goes    *)
(* away with the return.                                                   *)
Unlock(t) ==
  /\ pc[t] = "unlock"
  /\ g_lock' = 0
  /\ ret' = [ret EXCEPT ![t] = 0]
  /\ pc' = [pc EXCEPT ![t] = "idle"]
  /\ arg' = [arg EXCEPT ![t] = NoCall]
  /\ brightness' = [brightness EXCEPT ![t] = 0]
  /\ blink_mode' = [blink_mode EXCEPT ![t] = ""]
  /\ err' = [err EXCEPT ![t] = 0]
  /\ pre' = [pre EXCEPT ![t] = Pre0]
  /\ cw' = [cw EXCEPT ![t] = <<>>]
  /\ cid' = [cid EXCEPT ![t] = 0]
  /\ UNCHANGED <<shared, nlocks, prev, seq, segs, sysfs, budget>>

(* ------------------------ set_light_backlight -------------------------- *)
(* int brightness = rgb_to_brightness(state); then pthread_mutex_lock is   *)
(* reached: *state is read before the lock is held.                        *)
set_light_backlight(t) ==
  /\ pc[t] = "idle"
  /\ budget > 0
  /\ budget' = budget - 1
  /\ \E c \in Colors :
       /\ arg' = [arg EXCEPT ![t] = [src |-> BREATH_SOURCE_NONE, color |-> c]]
       /\ brightness' = [brightness EXCEPT ![t] = rgb_to_brightness(c)]
  /\ ret' = [ret EXCEPT ![t] = 0]
  /\ pc' = [pc EXCEPT ![t] = "L158"]
  /\ UNCHANGED <<shared, g_lock, blink_mode, history, sysfs>>

(* The backlight call enters without waiting for the mutex to be free. *)
BacklightLock_noMutex(t) ==
  /\ pc[t] = "L158"
  /\ g_lock' = t
  /\ pc' = [pc EXCEPT ![t] = "L159"]
  /\ pre' = [pre EXCEPT ![t] =
       [g |-> g, active |-> active_states, last |-> last_state,
        prev |-> prev]]
  /\ nlocks' = nlocks + 1
  /\ cid' = [cid EXCEPT ![t] = nlocks + 1]
  /\ UNCHANGED <<shared, locals, err, cw, prev, seq, segs, sysfs,
                 budget>>

(* pthread_mutex_lock(&g_lock) of set_light_backlight *)
BacklightLock(t) ==
  /\ pc[t] = "L158"
  /\ g_lock = 0
  /\ g_lock' = t
  /\ pc' = [pc EXCEPT ![t] = "L159"]
  /\ pre' = [pre EXCEPT ![t] =
       [g |-> g, active |-> active_states, last |-> last_state,
        prev |-> prev]]
  /\ nlocks' = nlocks + 1
  /\ cid' = [cid EXCEPT ![t] = nlocks + 1]
  /\ UNCHANGED <<shared, locals, err, cw, prev, seq, segs, sysfs,
                 budget>>

(* pthread_mutex_unlock(&g_lock); return err; *)
BacklightUnlock(t) ==
  /\ pc[t] = "L160"
  /\ g_lock' = 0
  /\ ret' = [ret EXCEPT ![t] = err[t]]
  /\ pc' = [pc EXCEPT ![t] = "idle"]
  /\ arg' = [arg EXCEPT ![t] = NoCall]
  /\ brightness' = [brightness EXCEPT ![t] = 0]
  /\ err' = [err EXCEPT ![t] = 0]
  /\ pre' = [pre EXCEPT ![t] = Pre0]
  /\ cw' = [cw EXCEPT ![t] = <<>>]
  /\ cid' = [cid EXCEPT ![t] = 0]
  /\ UNCHANGED <<shared, blink_mode, nlocks, prev, seq, segs, sysfs,
                 budget>>

(* ---------------------------- specifications --------------------------- *)
(* A thread enters one of the five set_light functions. *)
Enter(t) ==
  \/ set_light_backlight(t)
  \/ set_light_buttons(t)
  \/ set_light_battery(t)
  \/ set_light_notifications(t)
  \/ set_light_attention(t)

(* A thread inside a call executes its next statement; the writes return   *)
(* one of results.                                                         *)
Run(t, results) ==
  \/ BacklightLock(t)
  \/ BacklightUnlock(t)
  \/ Lock(t)
  \/ \E c \in Colors : Store(t, c)
  \/ ReadBrightness(t)
  \/ UpdateActive(t)
  \/ CheckEmpty(t)
  \/ Select(t)
  \/ ChoosePattern(t)
  \/ \E res \in results : write_int(t, res)
  \/ \E res \in results : write_str(t, res)
  \/ Unlock(t)

(* Every write succeeds. *)
Next == \E t \in Threads : Enter(t) \/ Run(t, {0})

Spec == Init /\ [][Next]_vars

(* One caller at a time, and writes may fail. *)
NextIO == Enter(1) \/ Run(1, WriteResults)

InitIO == Start /\ budget = MaxIOCalls /\ faults = MaxFaults

SpecIO == InitIO /\ [][NextIO]_vars

(* Every write succeeds, and the scheduler lets every thread that can      *)
(* execute a statement do so in the end.  A thread blocked in              *)
(* pthread_mutex_lock is promised nothing while the mutex is held.         *)
InitLive == Start /\ budget = MaxLiveCalls /\ faults = 0

FairSpec ==
  InitLive /\ [][Next]_vars /\ \A t \in Threads : WF_vars(Run(t, {0}))

(* ===================== properties of the arbitration =================== *)
(* The call of thread t has done all of its work and still holds the lock. *)
CallDone(t) == pc[t] = "unlock"

(* No call is between taking the lock and finishing its work. *)
BetweenCalls ==
  \A t \in Threads :
    pc[t] \in {"idle", "lock", "unlock", "L158", "L159", "L160"}

(* The part of the writes of t's call that follows the off sequence. *)
PatternPart(t) ==
  IF (arg[t].color \div 65536) % 256 > 0 THEN cw[t]
  ELSE SubSeq(cw[t], 5, Len(cw[t]))

(* C1: after every update call, the bit of each source in active_states is *)
(* set exactly when the red byte of the colour of the most recent update   *)
(* to that source is greater than 0 (clear if there was no update).        *)
C1_ActiveBitsFollowBrightness ==
  BetweenCalls =>
    \A s \in Sources :
      (BitAnd(active_states, s) = s) <=> ((seq.g[s] \div 65536) % 256 > 0)

(* A call has cleared the bit of an active source with a colour that is    *)
(* not 0 but whose red byte is 0.                                          *)
C1_Witness ==
  \E t \in Threads :
    /\ CallDone(t)
    /\ arg[t].color = 2130771967
    /\ BitAnd(pre[t].active, arg[t].src) # 0
    /\ active_states # 0

(* C2: after every update call, last_state is the first source of          *)
(* Notification, Battery, Buttons, Attention whose bit is in active_states,*)
(* and BREATH_SOURCE_NONE exactly when active_states is empty.             *)
C2_LastStateIsHighestPriority ==
  BetweenCalls =>
    last_state =
      (IF active_states % 2 = 1 THEN BREATH_SOURCE_NOTIFICATION
       ELSE IF (active_states \div 2) % 2 = 1 THEN BREATH_SOURCE_BATTERY
       ELSE IF (active_states \div 4) % 2 = 1 THEN BREATH_SOURCE_BUTTONS
       ELSE IF (active_states \div 8) % 2 = 1 THEN BREATH_SOURCE_ATTENTION
       ELSE BREATH_SOURCE_NONE)

(* Battery was active and Notification has just been activated, with a     *)
(* third source active as well.                                            *)
C2_Witness ==
  \E t \in Threads :
    /\ CallDone(t)
    /\ arg[t].src = BREATH_SOURCE_NOTIFICATION
    /\ BitAnd(pre[t].active, BREATH_SOURCE_BATTERY) # 0
    /\ pre[t].last = BREATH_SOURCE_BATTERY
    /\ active_states \in {7, 11}
    /\ last_state = BREATH_SOURCE_NOTIFICATION

(* C3: a call that resolves to Notification, Battery or Attention writes,  *)
(* after any off sequence, exactly the channel selector 16 and then the    *)
(* mode "3", also when Buttons is active but outranked.                    *)
C3_BreathingWinnerWritesRedOnly ==
  \A t \in Threads :
    (CallDone(t) /\ last_state \in {BREATH_SOURCE_NOTIFICATION,
                                    BREATH_SOURCE_BATTERY,
                                    BREATH_SOURCE_ATTENTION})
      => PatternPart(t) = <<[path |-> BREATH_RED_OUTN, data |-> "16\n"],
                            [path |-> BREATH_RED_LED, data |-> "3\n"]>>

(* C4: when update(Buttons, s) with a nonzero red byte leaves Buttons the  *)
(* winner, it writes the buttons-on sequence if last_state was not Buttons *)
(* before, and writes nothing if the call before it was the same           *)
(* update(Buttons, s).                                                     *)
C4_ButtonsTwiceWritesOnce ==
  \A t \in Threads :
    (/\ CallDone(t)
     /\ arg[t].src = BREATH_SOURCE_BUTTONS
     /\ (arg[t].color \div 65536) % 256 > 0
     /\ active_states % 4 = 0)
      => /\ pre[t].last # BREATH_SOURCE_BUTTONS =>
              cw[t] = <<[path |-> BREATH_RED_OUTN, data |-> "8\n"],
                        [path |-> BREATH_RED_GRADE, data |-> "3\n"],
                        [path |-> BREATH_RED_LED, data |-> "6\n"],
                        [path |-> BREATH_RED_OUTN, data |-> "16\n"],
                        [path |-> BREATH_RED_GRADE, data |-> "8\n"],
                        [path |-> BREATH_RED_LED, data |-> "6\n"]>>
         /\ pre[t].prev = arg[t] => cw[t] = <<>>

(* update(Buttons, s) has run twice in a row with Buttons the winner: the  *)
(* second call is done and the first had found last_state # Buttons.       *)
C4_Witness ==
  \E t \in Threads :
    /\ CallDone(t)
    /\ arg[t] = [src |-> BREATH_SOURCE_BUTTONS, color |-> 65536]
    /\ pre[t].prev = arg[t]
    /\ pre[t].last = BREATH_SOURCE_BUTTONS
    /\ active_states % 4 = 0
    /\ nlocks = 2

(* C5: an update that deactivates the only active source writes "2" to     *)
(* channel 8 and to channel 16, nothing else, and leaves last_state =      *)
(* BREATH_SOURCE_NONE.                                                     *)
C5_SoleSourceOff ==
  \A t \in Threads :
    (/\ CallDone(t)
     /\ (arg[t].color \div 65536) % 256 = 0
     /\ pre[t].active = arg[t].src)
      => /\ cw[t] = <<[path |-> BREATH_RED_OUTN, data |-> "8\n"],
                      [path |-> BREATH_RED_LED, data |-> "2\n"],
                      [path |-> BREATH_RED_OUTN, data |-> "16\n"],
                      [path |-> BREATH_RED_LED, data |-> "2\n"]>>
         /\ last_state = BREATH_SOURCE_NONE
         /\ active_states = 0

(* Battery was the only active source and has just been turned off. *)
C5_Witness ==
  \E t \in Threads :
    /\ CallDone(t)
    /\ arg[t].src = BREATH_SOURCE_BATTERY
    /\ (arg[t].color \div 65536) % 256 = 0
    /\ pre[t].active = BREATH_SOURCE_BATTERY
    /\ pre[t].last = BREATH_SOURCE_BATTERY

(* C6: a call whose colour has a nonzero red byte never writes the mode    *)
(* "2", whether or not it changes the winner.                              *)
C6_NoOffWriteWhenLit ==
  \A t \in Threads :
    (cid[t] # 0 /\ (arg[t].color \div 65536) % 256 > 0)
      => \A i \in 1..Len(cw[t]) :
           ~(cw[t][i].path = BREATH_RED_LED /\ cw[t][i].data = "2\n")

(* Notification has been activated while Buttons was the winner, and the   *)
(* call has written.                                                       *)
C6_Witness ==
  \E t \in Threads :
    /\ CallDone(t)
    /\ arg[t] = [src |-> BREATH_SOURCE_NOTIFICATION, color |-> 65536]
    /\ pre[t].last = BREATH_SOURCE_BUTTONS
    /\ last_state = BREATH_SOURCE_NOTIFICATION
    /\ cw[t] # <<>>

(* C7: whenever no call is in the middle of its work, and so once every    *)
(* call has returned, the state table, active_states and last_state are    *)
(* those of the same calls run one after the other, in the order in which  *)
(* they stored their state under the lock.                                 *)
C7_FinalStateIsSequential ==
  BetweenCalls
    => [g |-> g, active |-> active_states, last |-> last_state] = seq

(* Two calls for distinct sources are in progress together: the second     *)
(* call to take the lock has done its work while a call for another source *)
(* waits for the lock.                                                     *)
C7_Witness ==
  \E t, u \in Threads :
    /\ CallDone(t)
    /\ cid[t] >= 2
    /\ pc[u] = "lock"
    /\ arg[u].src # arg[t].src
    /\ active_states # 0

(* C8: the writes of one call reach the control points with no write of    *)
(* another call between them: no call owns two runs of the write sequence. *)
C8_WritesNotInterleaved ==
  \A i, j \in 1..Len(segs) : i # j => segs[i] # segs[j]

(* A call is in the middle of its writes while another call waits for the  *)
(* lock, and an earlier call has written too.                              *)
C8_Witness ==
  \E t, u \in Threads :
    /\ pc[t] \in {"L177", "L179", "L180", "L215", "L219", "L220", "L222",
                  "L223", "L224"}
    /\ pc[u] = "lock"
    /\ Len(segs) >= 2

(* C9: a call returns the first nonzero result of its writes, and 0 only   *)
(* when every write of the call returned 0.                                *)
C9_ReturnsFirstError ==
  [][\A t \in Threads :
       (pc[t] = "unlock" /\ pc'[t] = "idle") => ret'[t] = err[t]]_vars

(* C10: whatever the results of its writes, a call leaves the state table, *)
(* active_states and last_state, and attempts the writes, of the same call *)
(* with every write succeeding.                                            *)
C10_FailuresChangeNothing ==
  \A t \in Threads :
    CallDone(t) =>
      LET r == set_light(pre[t], arg[t].src, arg[t].color) IN
        /\ g = r.g
        /\ active_states = r.active
        /\ last_state = r.last
        /\ cw[t] = r.writes

(* A call with a failed write has gone on to write the off sequence and a  *)
(* pattern.                                                                *)
C10_Witness ==
  \E t \in Threads :
    /\ CallDone(t)
    /\ err[t] # 0
    /\ Len(cw[t]) > 4

(* ================= properties of the lock and the writers ============== *)
(* Thread t is between a pthread_mutex_lock and its pthread_mutex_unlock. *)
Inside(t) == pc[t] \notin {"idle", "lock", "L158"}

(* The call of thread t is an update of one of the four sources. *)
IsUpdate(t) == arg[t].src \in Sources

(* The call of thread t began its writes with the off sequence. *)
HasOff(t) == Len(cw[t]) >= 4 /\ SubSeq(cw[t], 1, 4) = OffWrites

(* The buffer of the last outn write of w before position i, "" if none. *)
RECURSIVE SelectorAt(_, _)
SelectorAt(w, i) ==
  IF i <= 1 THEN ""
  ELSE IF w[i - 1].path = BREATH_RED_OUTN THEN w[i - 1].data
  ELSE SelectorAt(w, i - 1)

C12_ButtonsOnOrder ==
  \A t \in Threads :
    (/\ CallDone(t)
     /\ last_state = BREATH_SOURCE_BUTTONS
     /\ pre[t].last # BREATH_SOURCE_BUTTONS)
      => /\ PatternPart(t) =
              <<[path |-> BREATH_RED_OUTN, data |-> "8\n"],
                [path |-> BREATH_RED_GRADE, data |-> "3\n"],
                [path |-> BREATH_RED_LED, data |-> "6\n"],
                [path |-> BREATH_RED_OUTN, data |-> "16\n"],
                [path |-> BREATH_RED_GRADE, data |-> "8\n"],
                [path |-> BREATH_RED_LED, data |-> "6\n"]>>
         /\ \A i \in 1..Len(cw[t]) :
              /\ cw[t][i].path # BREATH_RED_OUTN
                   => SelectorAt(cw[t], i) \in {"8\n", "16\n"}
              /\ cw[t][i] = [path |-> BREATH_RED_GRADE, data |-> "3\n"]
                   => SelectorAt(cw[t], i) = "8\n"
              /\ cw[t][i] = [path |-> BREATH_RED_GRADE, data |-> "8\n"]
                   => SelectorAt(cw[t], i) = "16\n"
              /\ (cw[t][i].path = BREATH_RED_LED /\ i = Len(cw[t]) - 3)
                   => SelectorAt(cw[t], i) = "8\n"
              /\ (cw[t][i].path = BREATH_RED_LED /\ i = Len(cw[t]))
                   => SelectorAt(cw[t], i) = "16\n"

(* Notification has been turned off while Buttons was active: the call has *)
(* written the off sequence and then made Buttons the new winner.          *)
C12_Witness ==
  \E t \in Threads :
    /\ CallDone(t)
    /\ arg[t].src = BREATH_SOURCE_NOTIFICATION
    /\ pre[t].last = BREATH_SOURCE_NOTIFICATION
    /\ last_state = BREATH_SOURCE_BUTTONS
    /\ Len(cw[t]) = 10

C14_LoggedOncePerControlPoint ==
  /\ \A i, j \in 1..Len(alog) : alog[i] = alog[j] => i = j
  /\ {alog[i] : i \in 1..Len(alog)} = failed

(* C15 as stated: an update writes the off sequence first exactly when the *)
(* bit of its source went from set to clear in the call.                   *)
C15_OffIffBitCleared ==
  \A t \in Threads :
    CallDone(t) =>
      (HasOff(t) <=> (/\ BitAnd(pre[t].active, arg[t].src) # 0
                      /\ BitAnd(active_states, arg[t].src) = 0))

(* C15 (amended): an update writes the off sequence, before any other      *)
(* write, exactly when the red byte of its colour is 0, whether the bit of *)
(* its source was set before the call or not.                              *)
C15_OffIffZeroBrightness ==
  \A t \in Threads :
    CallDone(t) => (HasOff(t) <=> (arg[t].color \div 65536) % 256 = 0)

(* A source that was not active has been updated with red byte 0 while     *)
(* another source is active, and the call has written the off sequence.    *)
C15_Witness ==
  \E t \in Threads :
    /\ CallDone(t)
    /\ (arg[t].color \div 65536) % 256 = 0
    /\ BitAnd(pre[t].active, arg[t].src) = 0
    /\ pre[t].active # 0
    /\ HasOff(t)

(* C16: an update that leaves active_states non-empty and writes no        *)
(* pattern has Buttons as winner and found last_state = Buttons; an update *)
(* that resolves to Notification, Battery or Attention writes a pattern.   *)
C16_OnlyButtonsSkips ==
  \A t \in Threads :
    (CallDone(t) /\ active_states # 0)
      => /\ PatternPart(t) = <<>>
              => /\ last_state = BREATH_SOURCE_BUTTONS
                 /\ pre[t].last = BREATH_SOURCE_BUTTONS
         /\ last_state \in {BREATH_SOURCE_NOTIFICATION,
                            BREATH_SOURCE_BATTERY,
                            BREATH_SOURCE_ATTENTION}
              => PatternPart(t) # <<>>

(* Battery was the winner and still is after an update of Attention, and   *)
(* the call has written a pattern.                                         *)
C16_Witness ==
  \E t \in Threads :
    /\ CallDone(t)
    /\ arg[t].src = BREATH_SOURCE_ATTENTION
    /\ pre[t].last = BREATH_SOURCE_BATTERY
    /\ last_state = BREATH_SOURCE_BATTERY
    /\ PatternPart(t) # <<>>

(* C17: a call that reaches the if / else-if chain finds at least one of   *)
(* the four source bits in active_states and no other bit, so the final    *)
(* else branch is not taken.                                               *)
C17_GuardUnreachable ==
  \A t \in Threads :
    pc[t] = "L188"
      => /\ active_states \in 1..15
         /\ Arbitrate(active_states, last_state).last # BREATH_SOURCE_NONE

(* A call with brightness 0 has got past the empty-set return. *)
C17_Witness ==
  \E t \in Threads :
    /\ pc[t] = "L188"
    /\ brightness[t] = 0
    /\ Len(cw[t]) = 4

(* C18: a call that holds the lock has left the stored states and the      *)
(* active bits of the sources other than its own as it found them, and a   *)
(* set_light_backlight call has left the state table, active_states and    *)
(* last_state as it found them.                                            *)
C18_FrameEffect ==
  \A t \in Threads :
    cid[t] # 0 =>
      IF IsUpdate(t)
      THEN \A s \in Sources \ {arg[t].src} :
             /\ g[s] = pre[t].g[s]
             /\ BitAnd(active_states, s) = BitAnd(pre[t].active, s)
      ELSE /\ g = pre[t].g
           /\ active_states = pre[t].active
           /\ last_state = pre[t].last

(* An update has changed the stored state and the bit of its source while  *)
(* two other sources are active.                                           *)
C18_Witness ==
  \E t \in Threads :
    /\ CallDone(t)
    /\ g[arg[t].src] # pre[t].g[arg[t].src]
    /\ BitAnd(pre[t].active, arg[t].src) = 0
    /\ BitAnd(active_states, arg[t].src) # 0
    /\ pre[t].active \in {3, 5, 6, 9, 10, 12}

(* C19: when an update has done its work with active_states non-empty, the *)
(* mode that reached blink_mode last for channel 16 is not "2", and for    *)
(* channel 8 it is "6" if Buttons is the winner.                           *)
C19_NeverDarkWhileActive ==
  \A t \in Threads :
    (CallDone(t) /\ active_states # 0)
      => /\ modeOf["16\n"] # "2\n"
         /\ last_state = BREATH_SOURCE_BUTTONS => modeOf["8\n"] = "6\n"
====
